---- MODULE Spec2Model ----
(***************************************************************************)
(* Interval arithmetic of the toybox crate (collections::interval_set).    *)
(*                                                                         *)
(* The library is a set of pure functions over immutable values.  The      *)
(* state machine below is a caller that holds the two values it obtained   *)
(* most recently (x, the newest, and y) and the record of the last call   *)
(* it made (ret: the operation, its arguments and what it returned).       *)
(* Every action is one call of the public or crate-internal API.           *)
(*                                                                         *)
(* sorting::insertion_sort, which shares nothing with the intervals, is    *)
(* modelled statement by statement under its own specification, SpecSort.  *)
(***************************************************************************)
EXTENDS Integers, Sequences, FiniteSets, TLC

VARIABLES x, y, ret

\* sorting::insertion_sort: the slice being sorted, its contents at the call
\* (input), the loop variables j and i, the insertion position k, and the
\* position of the control in the function (pc).
VARIABLES ordered_array, input, j, i, k, pc

sortvars == <<ordered_array, input, j, i, k, pc>>

vars == <<x, y, ret, ordered_array, input, j, i, k, pc>>

\* Largest domain value; the domain T is instantiated as the integers 0..MaxVal.
MaxVal == 3

Values == 0..MaxVal

(***************************************************************************)
(* T: PartialOrd.  Values is a totally ordered instance (the crate's tests *)
(* use i32).  PartialValues adds one element, NaN, that is incomparable    *)
(* with every element and with itself, as f64::NAN is: each of <, <=, >,   *)
(* >= and == involving it is false.                                        *)
(***************************************************************************)
NaN == MaxVal + 1

PartialValues == Values \cup {NaN}

Lt(a, b) == a # NaN /\ b # NaN /\ a < b
Le(a, b) == a # NaN /\ b # NaN /\ a <= b
Gt(a, b) == a # NaN /\ b # NaN /\ a > b
Ge(a, b) == a # NaN /\ b # NaN /\ a >= b
Eq(a, b) == a # NaN /\ b # NaN /\ a = b

(***************************************************************************)
(* enum Endpoint<T> { Open(T), Closed(T), Unbounded }                      *)
(***************************************************************************)
Open(v) == [kind |-> "Open", value |-> v]
Closed(v) == [kind |-> "Closed", value |-> v]
Unbounded == [kind |-> "Unbounded"]

Endpoints == {Open(v) : v \in Values} \cup {Closed(v) : v \in Values} \cup {Unbounded}

PartialEndpoints ==
    {Open(v) : v \in PartialValues} \cup {Closed(v) : v \in PartialValues} \cup {Unbounded}

(***************************************************************************)
(* IntervalSetResult<T> = Result<T, IntervalSetError>, Option<T>, and the  *)
(* other shapes a call can return.                                         *)
(***************************************************************************)
Ok(v) == [tag |-> "Ok", val |-> v]
Err(e) == [tag |-> "Err", err |-> e]
InvalidInterval == "InvalidInterval"
MergeSeparatedIntervals == "MergeSeparatedIntervals"

Some(v) == [tag |-> "Some", val |-> v]
None == [tag |-> "None"]
unwrap(o) == o.val

\* struct Interval<T> { left, right }
Interval(l, r) == [tag |-> "Interval", left |-> l, right |-> r]

(***************************************************************************)
(* Interval::new: the match on (&left, &right), arm by arm.                *)
(***************************************************************************)
Interval_new(left, right) ==
    CASE \/ (left.kind = "Open" /\ right.kind = "Open")
         \/ (left.kind = "Open" /\ right.kind = "Closed")
         \/ (left.kind = "Closed" /\ right.kind = "Open") ->
            IF Lt(left.value, right.value)
            THEN Ok(Interval(left, right))
            ELSE Err(InvalidInterval)
      [] left.kind = "Closed" /\ right.kind = "Closed" ->
            IF Le(left.value, right.value)
            THEN Ok(Interval(left, right))
            ELSE Err(InvalidInterval)
      [] left.kind = "Unbounded" -> Ok(Interval(left, right))
      [] left.kind # "Unbounded" /\ right.kind = "Unbounded" -> Ok(Interval(left, right))

\* Interval::open rejecting on low >= high instead of accepting on low < high.
Interval_open_unless_ge(low, high) ==
    IF Ge(low, high)
    THEN Err(InvalidInterval)
    ELSE Ok(Interval(Open(low), Open(high)))

Interval_open(low, high) ==
    IF Lt(low, high)
    THEN Ok(Interval(Open(low), Open(high)))
    ELSE Err(InvalidInterval)

\* Interval::closed with the strict comparison of the other constructors.
Interval_closed_strict(low, high) ==
    IF Lt(low, high)
    THEN Ok(Interval(Closed(low), Closed(high)))
    ELSE Err(InvalidInterval)

Interval_closed(low, high) ==
    IF Le(low, high)
    THEN Ok(Interval(Closed(low), Closed(high)))
    ELSE Err(InvalidInterval)

Interval_open_closed(low, high) ==
    IF Lt(low, high)
    THEN Ok(Interval(Open(low), Closed(high)))
    ELSE Err(InvalidInterval)

Interval_closed_open(low, high) ==
    IF Lt(low, high)
    THEN Ok(Interval(Closed(low), Open(high)))
    ELSE Err(InvalidInterval)

Interval_unbounded_open(high) == Interval(Unbounded, Open(high))
Interval_unbounded_closed(high) == Interval(Unbounded, Closed(high))
Interval_open_unbounded(low) == Interval(Open(low), Unbounded)
Interval_closed_unbounded(low) == Interval(Closed(low), Unbounded)
Interval_universe == Interval(Unbounded, Unbounded)

\* Interval::low / Interval::high
low(this) ==
    IF this.left.kind \in {"Open", "Closed"} THEN Some(this.left.value) ELSE None

high(this) ==
    IF this.right.kind \in {"Open", "Closed"} THEN Some(this.right.value) ELSE None

(***************************************************************************)
(* Separation: the two one-sided checks and their disjunction.             *)
(***************************************************************************)
\* The left check with a closed boundary treated like an open one (>= for >).
is_other_separated_from_this_to_the_left_closed_touching(this, other) ==
    CASE this.left.kind = "Open" ->
            \/ (other.right.kind = "Open" /\ Ge(this.left.value, other.right.value))
            \/ (other.right.kind = "Closed" /\ Gt(this.left.value, other.right.value))
      [] this.left.kind = "Closed" ->
            other.right.kind \in {"Open", "Closed"}
                /\ Ge(this.left.value, other.right.value)
      [] this.left.kind = "Unbounded" -> FALSE

is_other_separated_from_this_to_the_left(this, other) ==
    CASE this.left.kind = "Open" ->
            \/ (other.right.kind = "Open" /\ Ge(this.left.value, other.right.value))
            \/ (other.right.kind = "Closed" /\ Gt(this.left.value, other.right.value))
      [] this.left.kind = "Closed" ->
            other.right.kind \in {"Open", "Closed"}
                /\ Gt(this.left.value, other.right.value)
      [] this.left.kind = "Unbounded" -> FALSE

\* The right check with < for <= between two open boundaries.
is_other_separated_from_this_to_the_right_strict(this, other) ==
    CASE this.right.kind = "Open" ->
            \/ (other.left.kind = "Open" /\ Lt(this.right.value, other.left.value))
            \/ (other.left.kind = "Closed" /\ Lt(this.right.value, other.left.value))
      [] this.right.kind = "Closed" ->
            other.left.kind \in {"Open", "Closed"}
                /\ Lt(this.right.value, other.left.value)
      [] this.right.kind = "Unbounded" -> FALSE

is_other_separated_from_this_to_the_right(this, other) ==
    CASE this.right.kind = "Open" ->
            \/ (other.left.kind = "Open" /\ Le(this.right.value, other.left.value))
            \/ (other.left.kind = "Closed" /\ Lt(this.right.value, other.left.value))
      [] this.right.kind = "Closed" ->
            other.left.kind \in {"Open", "Closed"}
                /\ Lt(this.right.value, other.left.value)
      [] this.right.kind = "Unbounded" -> FALSE

is_separated_from(this, other) ==
    \/ is_other_separated_from_this_to_the_left(this, other)
    \/ is_other_separated_from_this_to_the_right(this, other)

(***************************************************************************)
(* The endpoint selectors used by merge.                                   *)
(***************************************************************************)
\* smaller_left_endpoint with <= for <: a tie keeps this interval's endpoint.
smaller_left_endpoint_tie_keeps_this(this, other) ==
    IF this.left.kind = "Unbounded" \/ other.left.kind = "Unbounded"
    THEN Unbounded
    ELSE LET this_low == unwrap(low(this))
             other_low == unwrap(low(other))
         IN  IF Le(this_low, other_low) THEN this.left
             ELSE other.left

\* smaller_left_endpoint with && for || on a tie: Closed only when both are.
smaller_left_endpoint_both_closed(this, other) ==
    IF this.left.kind = "Unbounded" \/ other.left.kind = "Unbounded"
    THEN Unbounded
    ELSE LET this_low == unwrap(low(this))
             other_low == unwrap(low(other))
         IN  IF Lt(this_low, other_low) THEN this.left
             ELSE IF Gt(this_low, other_low) THEN other.left
             ELSE IF this.left.kind = "Closed" /\ other.left.kind = "Closed"
                  THEN Closed(this_low)
                  ELSE Open(this_low)

smaller_left_endpoint(this, other) ==
    IF this.left.kind = "Unbounded" \/ other.left.kind = "Unbounded"
    THEN Unbounded
    ELSE LET this_low == unwrap(low(this))
             other_low == unwrap(low(other))
         IN  IF Lt(this_low, other_low) THEN this.left
             ELSE IF Gt(this_low, other_low) THEN other.left
             ELSE IF this.left.kind = "Closed" \/ other.left.kind = "Closed"
                  THEN Closed(this_low)
                  ELSE Open(this_low)

\* greater_right_endpoint with the comparisons of less_right_endpoint.
greater_right_endpoint_picks_less(this, other) ==
    IF this.right.kind = "Unbounded" \/ other.right.kind = "Unbounded"
    THEN Unbounded
    ELSE LET this_high == unwrap(high(this))
             other_high == unwrap(high(other))
         IN  IF Lt(this_high, other_high) THEN this.right
             ELSE IF Gt(this_high, other_high) THEN other.right
             ELSE IF this.right.kind = "Closed" \/ other.right.kind = "Closed"
                  THEN Closed(this_high)
                  ELSE Open(this_high)

\* greater_right_endpoint returning the open endpoint on every tie.
greater_right_endpoint_open_on_tie(this, other) ==
    IF this.right.kind = "Unbounded" \/ other.right.kind = "Unbounded"
    THEN Unbounded
    ELSE LET this_high == unwrap(high(this))
             other_high == unwrap(high(other))
         IN  IF Gt(this_high, other_high) THEN this.right
             ELSE IF Lt(this_high, other_high) THEN other.right
             ELSE Open(this_high)

\* greater_right_endpoint with >= for >: a tie keeps this interval's endpoint.
greater_right_endpoint_tie_keeps_this(this, other) ==
    IF this.right.kind = "Unbounded" \/ other.right.kind = "Unbounded"
    THEN Unbounded
    ELSE LET this_high == unwrap(high(this))
             other_high == unwrap(high(other))
         IN  IF Ge(this_high, other_high) THEN this.right
             ELSE other.right

greater_right_endpoint(this, other) ==
    IF this.right.kind = "Unbounded" \/ other.right.kind = "Unbounded"
    THEN Unbounded
    ELSE LET this_high == unwrap(high(this))
             other_high == unwrap(high(other))
         IN  IF Gt(this_high, other_high) THEN this.right
             ELSE IF Lt(this_high, other_high) THEN other.right
             ELSE IF this.right.kind = "Closed" \/ other.right.kind = "Closed"
                  THEN Closed(this_high)
                  ELSE Open(this_high)

\* greater_left_endpoint with merge's bias on a tie: Closed if either is closed.
greater_left_endpoint_closed_on_tie(this, other) ==
    IF this.left.kind = "Unbounded" THEN other.left
    ELSE IF other.left.kind = "Unbounded" THEN this.left
    ELSE LET this_low == unwrap(low(this))
             other_low == unwrap(low(other))
         IN  IF Gt(this_low, other_low) THEN this.left
             ELSE IF Lt(this_low, other_low) THEN other.left
             ELSE IF this.left.kind = "Closed" \/ other.left.kind = "Closed"
                  THEN Closed(this_low)
                  ELSE Open(this_low)

(***************************************************************************)
(* The endpoint selectors of an overlap (private, and not yet called by    *)
(* the crate).                                                             *)
(***************************************************************************)
greater_left_endpoint(this, other) ==
    IF this.left.kind = "Unbounded" THEN other.left
    ELSE IF other.left.kind = "Unbounded" THEN this.left
    ELSE LET this_low == unwrap(low(this))
             other_low == unwrap(low(other))
         IN  IF Gt(this_low, other_low) THEN this.left
             ELSE IF Lt(this_low, other_low) THEN other.left
             ELSE IF this.left.kind = "Open" \/ other.left.kind = "Open"
                  THEN Open(this_low)
                  ELSE Closed(this_low)

less_right_endpoint(this, other) ==
    IF this.right.kind = "Unbounded" THEN other.right
    ELSE IF other.right.kind = "Unbounded" THEN this.right
    ELSE LET this_high == unwrap(high(this))
             other_high == unwrap(high(other))
         IN  IF Lt(this_high, other_high) THEN this.right
             ELSE IF Gt(this_high, other_high) THEN other.right
             ELSE IF this.right.kind = "Open" \/ other.right.kind = "Open"
                  THEN Open(this_high)
                  ELSE Closed(this_high)

\* merge testing separation on one side only.
merge_left_check_only(this, other) ==
    IF is_other_separated_from_this_to_the_left(this, other)
    THEN Err(MergeSeparatedIntervals)
    ELSE Ok(Interval(smaller_left_endpoint(this, other),
                     greater_right_endpoint(this, other)))

\* Interval::merge: the result is built directly, not through Interval::new.
merge(this, other) ==
    IF is_separated_from(this, other)
    THEN Err(MergeSeparatedIntervals)
    ELSE Ok(Interval(smaller_left_endpoint(this, other),
                     greater_right_endpoint(this, other)))

(***************************************************************************)
(* impl Display for Interval.  The text is built as write! builds it; the  *)
(* infinity sign (one character, U+221E) is written Infinity here, and a   *)
(* value is formatted in decimal as i32's Display does.                    *)
(***************************************************************************)
Infinity == "U+221E"

\* fmt without the single-point arm: [a, a] is printed in full.
fmt_no_collapse(this) ==
    LET l == this.left
        r == this.right
        lt == IF l.kind = "Unbounded" THEN "(-" \o Infinity
              ELSE IF l.kind = "Open" THEN "(" \o ToString(l.value)
              ELSE "[" \o ToString(l.value)
        rt == IF r.kind = "Unbounded" THEN "+" \o Infinity \o ")"
              ELSE IF r.kind = "Open" THEN ToString(r.value) \o ")"
              ELSE ToString(r.value) \o "]"
    IN  lt \o ", " \o rt

fmt(this) ==
    LET l == this.left
        r == this.right
    IN  CASE l.kind = "Open" /\ r.kind = "Open" ->
                "(" \o ToString(l.value) \o ", " \o ToString(r.value) \o ")"
          [] l.kind = "Open" /\ r.kind = "Closed" ->
                "(" \o ToString(l.value) \o ", " \o ToString(r.value) \o "]"
          [] l.kind = "Closed" /\ r.kind = "Open" ->
                "[" \o ToString(l.value) \o ", " \o ToString(r.value) \o ")"
          [] l.kind = "Closed" /\ r.kind = "Closed" ->
                IF Eq(l.value, r.value)
                THEN "[" \o ToString(l.value) \o "]"
                ELSE "[" \o ToString(l.value) \o ", " \o ToString(r.value) \o "]"
          [] l.kind = "Unbounded" /\ r.kind = "Open" ->
                "(-" \o Infinity \o ", " \o ToString(r.value) \o ")"
          [] l.kind = "Unbounded" /\ r.kind = "Closed" ->
                "(-" \o Infinity \o ", " \o ToString(r.value) \o "]"
          [] l.kind = "Open" /\ r.kind = "Unbounded" ->
                "(" \o ToString(l.value) \o ", +" \o Infinity \o ")"
          [] l.kind = "Closed" /\ r.kind = "Unbounded" ->
                "[" \o ToString(l.value) \o ", +" \o Infinity \o ")"
          [] l.kind = "Unbounded" /\ r.kind = "Unbounded" ->
                "(-" \o Infinity \o ", +" \o Infinity \o ")"

(***************************************************************************)
(* struct IntervalSet<T> { intervals: Vec<Interval<T>> }                   *)
(***************************************************************************)
IntervalSet(ivs) == [tag |-> "IntervalSet", intervals |-> ivs]

\* impl From<Interval<T>> for IntervalSet<T>
from(interval) == IntervalSet(<<interval>>)

\* The match every fallible IntervalSet constructor applies to the interval result.
FromResult(interval) ==
    IF interval.tag = "Ok" THEN Ok(from(interval.val)) ELSE Err(interval.err)

IntervalSet_open(left_value, right_value) ==
    FromResult(Interval_open(left_value, right_value))
IntervalSet_closed(left_value, right_value) ==
    FromResult(Interval_closed(left_value, right_value))
IntervalSet_open_closed(left_value, right_value) ==
    FromResult(Interval_open_closed(left_value, right_value))
IntervalSet_closed_open(left_value, right_value) ==
    FromResult(Interval_closed_open(left_value, right_value))

IntervalSet_unbounded_open(right_value) ==
    IntervalSet(<<Interval_unbounded_open(right_value)>>)
IntervalSet_unbounded_closed(right_value) ==
    IntervalSet(<<Interval_unbounded_closed(right_value)>>)
IntervalSet_open_unbounded(left_value) ==
    IntervalSet(<<Interval_open_unbounded(left_value)>>)
IntervalSet_closed_unbounded(left_value) ==
    IntervalSet(<<Interval_closed_unbounded(left_value)>>)

\* todo!() panics with the message "not yet implemented"; nothing is returned.
Panic == [tag |-> "Panic", msg |-> "not yet implemented"]

union(this, other) == Panic
intersection(this, other) == Panic
bitand(this, rhs) == Panic

(***************************************************************************)
(* The caller.  A call that returns an Interval, an IntervalSet or a       *)
(* Result of one binds it to x (unwrapped when Ok, the Err itself          *)
(* otherwise) and the previous x becomes y.  A panic ends the caller.      *)
(***************************************************************************)
Bool(b) == [tag |-> "Bool", val |-> b]
String(t) == [tag |-> "String", val |-> t]

Call(op, args, out) == [op |-> op, args |-> args, out |-> out]

Bound(out) == IF out.tag = "Ok" THEN out.val ELSE out

Running == ret.out.tag # "Panic"

IsInterval(v) == v.tag = "Interval"
IsIntervalSet(v) == v.tag = "IntervalSet"

Returns(op, args, out) ==
    /\ ret' = Call(op, args, out)
    /\ x' = Bound(out)
    /\ y' = x
    /\ UNCHANGED sortvars

\* insertion_sort has not been called.
NoSort ==
    /\ ordered_array = <<>>
    /\ input = <<>>
    /\ j = 0
    /\ i = 0
    /\ k = 0
    /\ pc = "idle"

Init ==
    /\ x = Interval_universe
    /\ y = Interval_universe
    /\ ret = Call("Interval::universe", <<>>, Interval_universe)
    /\ NoSort

New ==
    /\ Running
    /\ \E left \in Endpoints, right \in Endpoints :
        Returns("Interval::new", <<left, right>>, Interval_new(left, right))

OpenCtor ==
    /\ Running
    /\ \E lo \in Values, hi \in Values :
        Returns("Interval::open", <<lo, hi>>, Interval_open(lo, hi))

ClosedCtor ==
    /\ Running
    /\ \E lo \in Values, hi \in Values :
        Returns("Interval::closed", <<lo, hi>>, Interval_closed(lo, hi))

OpenClosedCtor ==
    /\ Running
    /\ \E lo \in Values, hi \in Values :
        Returns("Interval::open_closed", <<lo, hi>>, Interval_open_closed(lo, hi))

ClosedOpenCtor ==
    /\ Running
    /\ \E lo \in Values, hi \in Values :
        Returns("Interval::closed_open", <<lo, hi>>, Interval_closed_open(lo, hi))

UnboundedOpenCtor ==
    /\ Running
    /\ \E hi \in Values :
        Returns("Interval::unbounded_open", <<hi>>, Interval_unbounded_open(hi))

UnboundedClosedCtor ==
    /\ Running
    /\ \E hi \in Values :
        Returns("Interval::unbounded_closed", <<hi>>, Interval_unbounded_closed(hi))

OpenUnboundedCtor ==
    /\ Running
    /\ \E lo \in Values :
        Returns("Interval::open_unbounded", <<lo>>, Interval_open_unbounded(lo))

ClosedUnboundedCtor ==
    /\ Running
    /\ \E lo \in Values :
        Returns("Interval::closed_unbounded", <<lo>>, Interval_closed_unbounded(lo))

UniverseCtor ==
    /\ Running
    /\ Returns("Interval::universe", <<>>, Interval_universe)

\* x.is_separated_from(&y)
IsSeparatedFrom ==
    /\ Running
    /\ IsInterval(x) /\ IsInterval(y)
    /\ ret' = Call("Interval::is_separated_from", <<x, y>>, Bool(is_separated_from(x, y)))
    /\ UNCHANGED <<x, y, sortvars>>

\* An Endpoint returned by a call.
EndpointValue(e) == [tag |-> "Endpoint", val |-> e]

\* x.greater_left_endpoint(&y)
GreaterLeftEndpoint ==
    /\ Running
    /\ IsInterval(x) /\ IsInterval(y)
    /\ ret' = Call("Interval::greater_left_endpoint", <<x, y>>,
                   EndpointValue(greater_left_endpoint(x, y)))
    /\ UNCHANGED <<x, y, sortvars>>

\* x.less_right_endpoint(&y)
LessRightEndpoint ==
    /\ Running
    /\ IsInterval(x) /\ IsInterval(y)
    /\ ret' = Call("Interval::less_right_endpoint", <<x, y>>,
                   EndpointValue(less_right_endpoint(x, y)))
    /\ UNCHANGED <<x, y, sortvars>>

\* x.merge(&y)
Merge ==
    /\ Running
    /\ IsInterval(x) /\ IsInterval(y)
    /\ Returns("Interval::merge", <<x, y>>, merge(x, y))

\* x.to_string()
Display ==
    /\ Running
    /\ IsInterval(x)
    /\ ret' = Call("Interval::to_string", <<x>>, String(fmt(x)))
    /\ UNCHANGED <<x, y, sortvars>>

SetOpenCtor ==
    /\ Running
    /\ \E lo \in Values, hi \in Values :
        Returns("IntervalSet::open", <<lo, hi>>, IntervalSet_open(lo, hi))

SetClosedCtor ==
    /\ Running
    /\ \E lo \in Values, hi \in Values :
        Returns("IntervalSet::closed", <<lo, hi>>, IntervalSet_closed(lo, hi))

SetOpenClosedCtor ==
    /\ Running
    /\ \E lo \in Values, hi \in Values :
        Returns("IntervalSet::open_closed", <<lo, hi>>, IntervalSet_open_closed(lo, hi))

SetClosedOpenCtor ==
    /\ Running
    /\ \E lo \in Values, hi \in Values :
        Returns("IntervalSet::closed_open", <<lo, hi>>, IntervalSet_closed_open(lo, hi))

SetUnboundedOpenCtor ==
    /\ Running
    /\ \E hi \in Values :
        Returns("IntervalSet::unbounded_open", <<hi>>, IntervalSet_unbounded_open(hi))

SetUnboundedClosedCtor ==
    /\ Running
    /\ \E hi \in Values :
        Returns("IntervalSet::unbounded_closed", <<hi>>, IntervalSet_unbounded_closed(hi))

SetOpenUnboundedCtor ==
    /\ Running
    /\ \E lo \in Values :
        Returns("IntervalSet::open_unbounded", <<lo>>, IntervalSet_open_unbounded(lo))

SetClosedUnboundedCtor ==
    /\ Running
    /\ \E lo \in Values :
        Returns("IntervalSet::closed_unbounded", <<lo>>, IntervalSet_closed_unbounded(lo))

\* IntervalSet::from(x): the interval is moved into the set.
From ==
    /\ Running
    /\ IsInterval(x)
    /\ ret' = Call("IntervalSet::from", <<x>>, from(x))
    /\ x' = from(x)
    /\ UNCHANGED <<y, sortvars>>

\* A call that panics returns nothing: x and y keep their values.
Panics(op, args, out) ==
    /\ ret' = Call(op, args, out)
    /\ UNCHANGED <<x, y, sortvars>>

\* x.union(&y)
Union ==
    /\ Running
    /\ IsIntervalSet(x) /\ IsIntervalSet(y)
    /\ Panics("IntervalSet::union", <<x, y>>, union(x, y))

\* x.intersection(&y)
Intersection ==
    /\ Running
    /\ IsIntervalSet(x) /\ IsIntervalSet(y)
    /\ Panics("IntervalSet::intersection", <<x, y>>, intersection(x, y))

\* x & y
BitAnd ==
    /\ Running
    /\ IsIntervalSet(x) /\ IsIntervalSet(y)
    /\ Panics("IntervalSet::bitand", <<x, y>>, bitand(x, y))

Next ==
    \/ New
    \/ OpenCtor
    \/ ClosedCtor
    \/ OpenClosedCtor
    \/ ClosedOpenCtor
    \/ UnboundedOpenCtor
    \/ UnboundedClosedCtor
    \/ OpenUnboundedCtor
    \/ ClosedUnboundedCtor
    \/ UniverseCtor
    \/ IsSeparatedFrom
    \/ GreaterLeftEndpoint
    \/ LessRightEndpoint
    \/ Merge
    \/ Display
    \/ SetOpenCtor
    \/ SetClosedCtor
    \/ SetOpenClosedCtor
    \/ SetClosedOpenCtor
    \/ SetUnboundedOpenCtor
    \/ SetUnboundedClosedCtor
    \/ SetOpenUnboundedCtor
    \/ SetClosedUnboundedCtor
    \/ From
    \/ Union
    \/ Intersection
    \/ BitAnd

Spec == Init /\ [][Next]_vars

(***************************************************************************)
(* The same caller over a domain that is only partially ordered: the       *)
(* Interval constructors, the separation test and merge, with arguments    *)
(* drawn from PartialValues.                                               *)
(***************************************************************************)
NewPartial ==
    /\ Running
    /\ \E left \in PartialEndpoints, right \in PartialEndpoints :
        Returns("Interval::new", <<left, right>>, Interval_new(left, right))

OpenCtorPartial ==
    /\ Running
    /\ \E lo \in PartialValues, hi \in PartialValues :
        Returns("Interval::open", <<lo, hi>>, Interval_open(lo, hi))

ClosedCtorPartial ==
    /\ Running
    /\ \E lo \in PartialValues, hi \in PartialValues :
        Returns("Interval::closed", <<lo, hi>>, Interval_closed(lo, hi))

OpenClosedCtorPartial ==
    /\ Running
    /\ \E lo \in PartialValues, hi \in PartialValues :
        Returns("Interval::open_closed", <<lo, hi>>, Interval_open_closed(lo, hi))

ClosedOpenCtorPartial ==
    /\ Running
    /\ \E lo \in PartialValues, hi \in PartialValues :
        Returns("Interval::closed_open", <<lo, hi>>, Interval_closed_open(lo, hi))

UnboundedOpenCtorPartial ==
    /\ Running
    /\ \E hi \in PartialValues :
        Returns("Interval::unbounded_open", <<hi>>, Interval_unbounded_open(hi))

UnboundedClosedCtorPartial ==
    /\ Running
    /\ \E hi \in PartialValues :
        Returns("Interval::unbounded_closed", <<hi>>, Interval_unbounded_closed(hi))

OpenUnboundedCtorPartial ==
    /\ Running
    /\ \E lo \in PartialValues :
        Returns("Interval::open_unbounded", <<lo>>, Interval_open_unbounded(lo))

ClosedUnboundedCtorPartial ==
    /\ Running
    /\ \E lo \in PartialValues :
        Returns("Interval::closed_unbounded", <<lo>>, Interval_closed_unbounded(lo))

NextPartial ==
    \/ NewPartial
    \/ OpenCtorPartial
    \/ ClosedCtorPartial
    \/ OpenClosedCtorPartial
    \/ ClosedOpenCtorPartial
    \/ UnboundedOpenCtorPartial
    \/ UnboundedClosedCtorPartial
    \/ OpenUnboundedCtorPartial
    \/ ClosedUnboundedCtorPartial
    \/ IsSeparatedFrom
    \/ Merge

SpecPartial == Init /\ [][NextPartial]_vars

(***************************************************************************)
(* sorting::insertion_sort<T: PartialOrd>(ordered_array: &mut [T]).        *)
(*                                                                         *)
(* The elements are the Person values of the crate's test: a name and an   *)
(* age, ordered by age alone.  The names of a slice are the positions its  *)
(* elements had at the call, so equal ages remain distinguishable.         *)
(* j, i and k count from 0 as in the source; sequences here count from 1.  *)
(***************************************************************************)
\* Longest slice sorted.
MaxLen == 4

Person(name, age) == [name |-> name, age |-> age]

\* impl PartialOrd for Person: self.age.partial_cmp(&other.age), used as >=.
ge(value, other) == Ge(value.age, other.age)

Slices ==
    UNION {{[p \in 1..n |-> Person(p, ages[p])] : ages \in [1..n -> Values]}
              : n \in 0..MaxLen}

\* [T]::rotate_right(mid): the last mid elements move to the front.
rotate_right(slice, mid) ==
    SubSeq(slice, Len(slice) - mid + 1, Len(slice))
        \o SubSeq(slice, 1, Len(slice) - mid)

\* The break test of the inner loop with > for >=.
inserts_after_strict(value, other) == ~ge(other, value)

\* if value >= other_value { break i + 1; }
inserts_after(value, other) == ge(value, other)

InitSort ==
    /\ x = Interval_universe
    /\ y = Interval_universe
    /\ ret = Call("Interval::universe", <<>>, Interval_universe)
    /\ ordered_array \in Slices
    /\ input = ordered_array
    /\ j = 1
    /\ i = 0
    /\ k = 0
    /\ pc = "for"

\* for j in 1..ordered_array.len(): the body is entered; let mut i = j - 1.
ForBody ==
    /\ pc = "for"
    /\ j < Len(ordered_array)
    /\ i' = j - 1
    /\ pc' = "loop"
    /\ UNCHANGED <<x, y, ret, ordered_array, input, j, k>>

\* The range is exhausted and the function returns.
ForEnd ==
    /\ pc = "for"
    /\ ~(j < Len(ordered_array))
    /\ pc' = "done"
    /\ UNCHANGED <<x, y, ret, ordered_array, input, j, i, k>>

\* loop: value >= other_value, break i + 1.
LoopBreakAfter ==
    /\ pc = "loop"
    /\ inserts_after(ordered_array[j + 1], ordered_array[i + 1])
    /\ k' = i + 1
    /\ pc' = "placed"
    /\ UNCHANGED <<x, y, ret, ordered_array, input, j, i>>

\* loop: i == 0, break 0.
LoopBreakFront ==
    /\ pc = "loop"
    /\ ~inserts_after(ordered_array[j + 1], ordered_array[i + 1])
    /\ i = 0
    /\ k' = 0
    /\ pc' = "placed"
    /\ UNCHANGED <<x, y, ret, ordered_array, input, j, i>>

\* loop: i -= 1.
LoopStep ==
    /\ pc = "loop"
    /\ ~inserts_after(ordered_array[j + 1], ordered_array[i + 1])
    /\ i # 0
    /\ i' = i - 1
    /\ UNCHANGED <<x, y, ret, ordered_array, input, j, k, pc>>

\* if k == j { continue; }
Continue ==
    /\ pc = "placed"
    /\ k = j
    /\ j' = j + 1
    /\ pc' = "for"
    /\ UNCHANGED <<x, y, ret, ordered_array, input, i, k>>

\* ordered_array[k..=j].rotate_right(1)
Rotate ==
    /\ pc = "placed"
    /\ k # j
    /\ ordered_array' =
          SubSeq(ordered_array, 1, k)
              \o rotate_right(SubSeq(ordered_array, k + 1, j + 1), 1)
              \o SubSeq(ordered_array, j + 2, Len(ordered_array))
    /\ j' = j + 1
    /\ pc' = "for"
    /\ UNCHANGED <<x, y, ret, input, i, k>>

NextSort ==
    \/ ForBody
    \/ ForEnd
    \/ LoopBreakAfter
    \/ LoopBreakFront
    \/ LoopStep
    \/ Continue
    \/ Rotate

\* The function is sequential code: while a statement remains, one runs.
SpecSort == InitSort /\ [][NextSort]_vars /\ WF_vars(NextSort)

(***************************************************************************)
(* Properties.                                                             *)
(*                                                                         *)
(* Points of a dense domain: the value v sits at 2*v, the odd numbers are  *)
(* points strictly between two neighbouring values, and -1 and 2*MaxVal+1  *)
(* lie beyond every value.  Two intervals with endpoints in Values share a *)
(* point of the dense domain iff they share one of these.                  *)
(***************************************************************************)
Points == (-1)..(2 * MaxVal + 1)

Contains(iv, p) ==
    /\ CASE iv.left.kind = "Open" -> 2 * iv.left.value < p
         [] iv.left.kind = "Closed" -> 2 * iv.left.value <= p
         [] iv.left.kind = "Unbounded" -> TRUE
    /\ CASE iv.right.kind = "Open" -> p < 2 * iv.right.value
         [] iv.right.kind = "Closed" -> p <= 2 * iv.right.value
         [] iv.right.kind = "Unbounded" -> TRUE

\* The closure of a non-empty interval: its bounded endpoints become closed.
ClosureContains(iv, p) ==
    /\ iv.left.kind \in {"Open", "Closed"} => 2 * iv.left.value <= p
    /\ iv.right.kind \in {"Open", "Closed"} => p <= 2 * iv.right.value

TopologicallySeparated(A, B) ==
    /\ ~ \E p \in Points : ClosureContains(A, p) /\ Contains(B, p)
    /\ ~ \E p \in Points : Contains(A, p) /\ ClosureContains(B, p)

\* The construction rule as the specification words it.
ConstructionRule(left, right) ==
    IF left.kind = "Unbounded" \/ right.kind = "Unbounded" THEN TRUE
    ELSE IF left.kind = "Closed" /\ right.kind = "Closed"
         THEN left.value <= right.value
         ELSE left.value < right.value

Expected(left, right) ==
    IF ConstructionRule(left, right)
    THEN Ok(Interval(left, right))
    ELSE Err(InvalidInterval)

\* C1: a construction returns Ok exactly when low < high, or low <= high when
\* both endpoints are Closed, Err(InvalidInterval) otherwise, and always Ok
\* when an endpoint is Unbounded; each convenience constructor returns what
\* Interval::new returns for the corresponding endpoint variants.
C1_ConstructionValidity ==
    /\ ret.op = "Interval::new" =>
          ret.out = Expected(ret.args[1], ret.args[2])
    /\ ret.op = "Interval::open" =>
          /\ ret.out = Expected(Open(ret.args[1]), Open(ret.args[2]))
          /\ ret.out = Interval_new(Open(ret.args[1]), Open(ret.args[2]))
    /\ ret.op = "Interval::closed" =>
          /\ ret.out = Expected(Closed(ret.args[1]), Closed(ret.args[2]))
          /\ ret.out = Interval_new(Closed(ret.args[1]), Closed(ret.args[2]))
    /\ ret.op = "Interval::open_closed" =>
          /\ ret.out = Expected(Open(ret.args[1]), Closed(ret.args[2]))
          /\ ret.out = Interval_new(Open(ret.args[1]), Closed(ret.args[2]))
    /\ ret.op = "Interval::closed_open" =>
          /\ ret.out = Expected(Closed(ret.args[1]), Open(ret.args[2]))
          /\ ret.out = Interval_new(Closed(ret.args[1]), Open(ret.args[2]))

\* closed(1, 1) has returned the degenerate interval.
C1_Witness ==
    /\ ret.op = "Interval::closed"
    /\ ret.args = <<1, 1>>
    /\ ret.out = Ok(Interval(Closed(1), Closed(1)))

\* C2: separation is symmetric: what x.is_separated_from(y) returned is what
\* y.is_separated_from(x) returns.
C2_SeparationSymmetric ==
    ret.op = "Interval::is_separated_from" =>
        ret.out.val = is_separated_from(ret.args[2], ret.args[1])

\* A call on two different intervals that touch has answered "separated".
C2_Witness ==
    /\ ret.op = "Interval::is_separated_from"
    /\ ret.args[1] = Interval(Open(1), Open(2))
    /\ ret.args[2] = Interval(Unbounded, Open(1))
    /\ ret.out.val = TRUE

\* C3: is_separated_from is true iff closure(A) shares no point with B and A
\* shares no point with closure(B); intervals touching at one value (A ends
\* where B starts) are separated iff both touching endpoints are Open.
C3_SeparationIsTopological ==
    ret.op = "Interval::is_separated_from" =>
        LET A == ret.args[1]
            B == ret.args[2]
            sep == ret.out.val
        IN  /\ sep = TopologicallySeparated(A, B)
            /\ (/\ A.right.kind \in {"Open", "Closed"}
                /\ B.left.kind \in {"Open", "Closed"}
                /\ A.right.value = B.left.value)
               => (sep <=> (A.right.kind = "Open" /\ B.left.kind = "Open"))
            /\ (A = Interval(Open(0), Open(1)) /\ B = Interval(Open(1), Open(2)))
               => sep
            /\ (A = Interval(Unbounded, Open(0)) /\ B = Interval(Open(0), Unbounded))
               => sep
            /\ (A = Interval(Open(0), Open(1)) /\ B = Interval(Closed(1), Open(2)))
               => ~sep
            /\ (A = Interval(Unbounded, Open(0)) /\ B = Interval(Closed(0), Unbounded))
               => ~sep

\* open(0, 1) and closed_open(1, 2), which touch at 1, were found not separated.
C3_Witness ==
    /\ ret.op = "Interval::is_separated_from"
    /\ ret.args[1] = Interval(Open(0), Open(1))
    /\ ret.args[2] = Interval(Closed(1), Open(2))
    /\ ret.out.val = FALSE

\* C4: merge returns Err(MergeSeparatedIntervals) iff the intervals are
\* separated, and Ok with an interval in every other case; no other error.
C4_MergeSeparationDuality ==
    ret.op = "Interval::merge" =>
        LET sep == is_separated_from(ret.args[1], ret.args[2])
        IN  /\ (ret.out = Err(MergeSeparatedIntervals)) <=> sep
            /\ ~sep => (ret.out.tag = "Ok" /\ ret.out.val.tag = "Interval")
            /\ ret.out.tag \in {"Ok", "Err"}

\* A merge of open(0, 1) with open(1, 2) has failed.
C4_Witness ==
    /\ ret.op = "Interval::merge"
    /\ ret.args = <<Interval(Open(0), Open(1)), Interval(Open(1), Open(2))>>
    /\ ret.out = Err(MergeSeparatedIntervals)

\* The endpoint kinds ordered by inclusiveness on a tie.
MoreInclusive(e1, e2) ==
    IF e1.kind = "Closed" \/ e2.kind = "Closed" THEN Closed(e1.value) ELSE Open(e1.value)

\* C5: a successful merge has left endpoint Unbounded if either left is
\* Unbounded, otherwise the left endpoint of smaller value, Closed winning
\* over Open on equal values; the right endpoint symmetrically with the larger
\* value; open(0,1).merge(closed(1,2)) is open_closed(0,2).
C5_MergeEndpointSelection ==
    (ret.op = "Interval::merge" /\ ret.out.tag = "Ok") =>
        LET A == ret.args[1]
            B == ret.args[2]
            M == ret.out.val
        IN  /\ M.left =
                  IF A.left.kind = "Unbounded" \/ B.left.kind = "Unbounded" THEN Unbounded
                  ELSE IF A.left.value < B.left.value THEN A.left
                  ELSE IF B.left.value < A.left.value THEN B.left
                  ELSE MoreInclusive(A.left, B.left)
            /\ M.right =
                  IF A.right.kind = "Unbounded" \/ B.right.kind = "Unbounded" THEN Unbounded
                  ELSE IF A.right.value > B.right.value THEN A.right
                  ELSE IF B.right.value > A.right.value THEN B.right
                  ELSE MoreInclusive(A.right, B.right)
            /\ (A = Interval(Open(0), Open(1)) /\ B = Interval(Closed(1), Closed(2)))
               => M = Interval(Open(0), Closed(2))

\* A merge whose right endpoints tie at 2, this one open and the other closed.
C5_Witness ==
    /\ ret.op = "Interval::merge"
    /\ ret.args = <<Interval(Open(0), Open(2)), Interval(Open(1), Closed(2))>>
    /\ ret.out = Ok(Interval(Open(0), Closed(2)))

\* C6: the interval a successful merge returns satisfies the construction
\* rule: Interval::new on its endpoints returns Ok (that very interval).
C6_MergePreservesValidity ==
    (ret.op = "Interval::merge" /\ ret.out.tag = "Ok") =>
        Interval_new(ret.out.val.left, ret.out.val.right) = Ok(ret.out.val)

\* Two single-point intervals were merged into a single-point interval.
C6_Witness ==
    /\ ret.op = "Interval::merge"
    /\ ret.args = <<Interval(Closed(1), Closed(1)), Interval(Closed(1), Closed(1))>>
    /\ ret.out.tag = "Ok"

\* C7: a point belongs to the result of a successful merge iff it belongs to
\* one of the two operands (the result is their convex hull).
C7_MergeIsConvexHull ==
    (ret.op = "Interval::merge" /\ ret.out.tag = "Ok") =>
        \A p \in Points :
            Contains(ret.out.val, p)
                <=> (Contains(ret.args[1], p) \/ Contains(ret.args[2], p))

\* Two overlapping intervals, neither inside the other, were merged.
C7_Witness ==
    /\ ret.op = "Interval::merge"
    /\ ret.args = <<Interval(Open(0), Open(2)), Interval(Closed(1), Closed(3))>>
    /\ ret.out.tag = "Ok"

SetOperations == {"IntervalSet::union", "IntervalSet::intersection", "IntervalSet::bitand"}

\* C8: union, intersection and & complete and return an IntervalSet; they
\* never panic.
C8_SetOperationsNeverFail ==
    ret.op \in SetOperations => ret.out.tag = "IntervalSet"

LeftBracket(e) == IF e.kind = "Closed" THEN "[" ELSE "("
RightBracket(e) == IF e.kind = "Closed" THEN "]" ELSE ")"
LeftText(e) == IF e.kind = "Unbounded" THEN "-" \o Infinity ELSE ToString(e.value)
RightText(e) == IF e.kind = "Unbounded" THEN "+" \o Infinity ELSE ToString(e.value)

\* C10: the text starts with ( for an Open or Unbounded left and [ for a
\* Closed one, ends with ) or ] likewise, prints an unbounded side as -inf or
\* +inf, and prints a Closed-Closed interval of equal values as [a];
\* closed(0,0) prints "[0]" and open_closed(0,1) prints "(0, 1]".
C10_DisplayNotation ==
    ret.op = "Interval::to_string" =>
        LET iv == ret.args[1]
            l == iv.left
            r == iv.right
        IN  /\ ret.out.val =
                  IF l.kind = "Closed" /\ r.kind = "Closed" /\ l.value = r.value
                  THEN "[" \o ToString(l.value) \o "]"
                  ELSE LeftBracket(l) \o LeftText(l) \o ", "
                          \o RightText(r) \o RightBracket(r)
            /\ iv = Interval(Closed(0), Closed(0)) => ret.out.val = "[0]"
            /\ iv = Interval(Open(0), Closed(1)) => ret.out.val = "(0, 1]"

\* The single-point interval closed(0, 0) was printed.
C10_Witness ==
    /\ ret.op = "Interval::to_string"
    /\ ret.args[1] = Interval(Closed(0), Closed(0))
    /\ ret.out.val = "[0]"

\* The candidate overlap of the two operands of the last selector call: the
\* endpoint the call returned with the endpoint the other selector returns.
CandidateLeft ==
    IF ret.op = "Interval::greater_left_endpoint" THEN ret.out.val
    ELSE greater_left_endpoint(ret.args[1], ret.args[2])

CandidateRight ==
    IF ret.op = "Interval::less_right_endpoint" THEN ret.out.val
    ELSE less_right_endpoint(ret.args[1], ret.args[2])

SelectorCalled ==
    ret.op \in {"Interval::greater_left_endpoint", "Interval::less_right_endpoint"}

SharePoint(A, B) == \E p \in Points : Contains(A, p) /\ Contains(B, p)

\* C11 as stated: the candidate overlap is a valid interval iff the operands
\* are not separated.
C11_OverlapIffNotSeparated ==
    SelectorCalled =>
        (ConstructionRule(CandidateLeft, CandidateRight)
            <=> ~is_separated_from(ret.args[1], ret.args[2]))

\* C11 (amended): the candidate overlap is a valid interval iff the operands
\* share a point, and then they are not separated; operands that are not
\* separated but only touch give an invalid candidate.
C11_OverlapIffSharePoint ==
    SelectorCalled =>
        LET A == ret.args[1]
            B == ret.args[2]
            valid == ConstructionRule(CandidateLeft, CandidateRight)
        IN  /\ valid <=> SharePoint(A, B)
            /\ valid => ~is_separated_from(A, B)
            /\ valid => \A p \in Points :
                  Contains(Interval(CandidateLeft, CandidateRight), p)
                      <=> (Contains(A, p) /\ Contains(B, p))

\* The left selector was called on (1, 2) and [1, 1], which tie at 1 and
\* share no point.
C11_Witness ==
    /\ ret.op = "Interval::greater_left_endpoint"
    /\ ret.args = <<Interval(Open(1), Open(2)), Interval(Closed(1), Closed(1))>>
    /\ ret.out.val = Open(1)

\* Every comparison between a and b is false.
Incomparable(a, b) ==
    ~Lt(a, b) /\ ~Le(a, b) /\ ~Gt(a, b) /\ ~Ge(a, b) /\ ~Eq(a, b)

\* The last call built a bounded interval from incomparable low and high.
BoundedFromIncomparable ==
    \/ /\ ret.op = "Interval::new"
       /\ ret.args[1].kind \in {"Open", "Closed"}
       /\ ret.args[2].kind \in {"Open", "Closed"}
       /\ Incomparable(ret.args[1].value, ret.args[2].value)
    \/ /\ ret.op \in {"Interval::open", "Interval::closed",
                      "Interval::open_closed", "Interval::closed_open"}
       /\ Incomparable(ret.args[1], ret.args[2])

\* C12 as stated: a bounded interval built from incomparable low and high is
\* accepted (the constructor returns Ok).
C12_IncomparableAccepted ==
    BoundedFromIncomparable => ret.out.tag = "Ok"

\* C12 (amended): a bounded interval built from incomparable low and high is
\* rejected: new, open, closed, open_closed and closed_open return
\* Err(InvalidInterval).
C12_IncomparableRejected ==
    BoundedFromIncomparable => ret.out = Err(InvalidInterval)

\* open(0, NaN) was called and returned the error.
C12_Witness ==
    /\ ret.op = "Interval::open"
    /\ ret.args = <<0, NaN>>
    /\ ret.out = Err(InvalidInterval)

\* C13: merge is commutative: x.merge(y) and y.merge(x) both fail with
\* MergeSeparatedIntervals or both return the same interval (same endpoint
\* kinds and values); and merging an interval with itself returns it.
C13_MergeCommutative ==
    ret.op = "Interval::merge" =>
        LET A == ret.args[1]
            B == ret.args[2]
            swapped == merge(B, A)
        IN  /\ ret.out.tag = "Err" =>
                  (ret.out = Err(MergeSeparatedIntervals) /\ swapped = ret.out)
            /\ ret.out.tag = "Ok" =>
                  /\ swapped.tag = "Ok"
                  /\ swapped.val.left = ret.out.val.left
                  /\ swapped.val.right = ret.out.val.right
            /\ A = B => ret.out = Ok(A)

\* Two different intervals whose left endpoints tie at 0, the first open and
\* the second closed, were merged.
C13_Witness ==
    /\ ret.op = "Interval::merge"
    /\ ret.args = <<Interval(Open(0), Open(2)), Interval(Closed(0), Open(1))>>
    /\ ret.out = Ok(Interval(Closed(0), Open(2)))

\* Every interval the constructors accept over Values.
ValidIntervals ==
    {Interval(l, r) : <<l, r>> \in
        {e \in Endpoints \X Endpoints : Interval_new(e[1], e[2]).tag = "Ok"}}

\* C14: after a successful merge of A and B, every valid interval C that is
\* not separated from A or not separated from B is not separated from the
\* result (in either direction), so merging the result with C succeeds.
C14_MergeKeepsMergeability ==
    (ret.op = "Interval::merge" /\ ret.out.tag = "Ok") =>
        LET A == ret.args[1]
            B == ret.args[2]
            M == ret.out.val
        IN  \A C \in ValidIntervals :
                (~is_separated_from(C, A) \/ ~is_separated_from(C, B)) =>
                    /\ ~is_separated_from(C, M)
                    /\ merge(M, C).tag = "Ok"
                    /\ merge(C, M).tag = "Ok"

\* (0, 1) and [1, 2] were merged into (0, 2]; the interval (2, 3) is
\* separated from the first operand, not from the second, and not from the
\* result.
C14_Witness ==
    /\ ret.op = "Interval::merge"
    /\ ret.args = <<Interval(Open(0), Open(1)), Interval(Closed(1), Closed(2))>>
    /\ ret.out = Ok(Interval(Open(0), Closed(2)))
    /\ Interval(Open(2), Open(3)) \in ValidIntervals
    /\ is_separated_from(Interval(Open(2), Open(3)), ret.args[1])
    /\ ~is_separated_from(Interval(Open(2), Open(3)), ret.args[2])
    /\ ~is_separated_from(Interval(Open(2), Open(3)), ret.out.val)

Sorted(a) ==
    \A p \in 1..Len(a) : \A q \in 1..Len(a) : p < q => a[p].age <= a[q].age

SameElements(a, b) ==
    /\ Len(a) = Len(b)
    /\ \A e \in {a[p] : p \in 1..Len(a)} \cup {b[p] : p \in 1..Len(b)} :
          Cardinality({p \in 1..Len(a) : a[p] = e})
              = Cardinality({p \in 1..Len(b) : b[p] = e})

\* Elements of equal age stand in the order of their names, which are their
\* positions at the call.
Stable(a) ==
    \A p \in 1..Len(a) : \A q \in 1..Len(a) :
        (p < q /\ a[p].age = a[q].age) => a[p].name < a[q].name

\* C15: insertion_sort terminates for every slice (the empty and the
\* one-element slice included), and when it returns the slice is in
\* non-decreasing order, holds the same multiset of elements as at the call,
\* and elements that compare equal are in their original relative order.
C15_InsertionSort ==
    /\ <>(pc = "done")
    /\ [](pc = "done" =>
            /\ Sorted(ordered_array)
            /\ SameElements(ordered_array, input)
            /\ Stable(ordered_array))

\* The sort of a slice with ages 2, 1, 2, 1 has returned, the slice changed.
C15_Witness ==
    /\ pc = "done"
    /\ input = <<Person(1, 2), Person(2, 1), Person(3, 2), Person(4, 1)>>
    /\ ordered_array = <<Person(2, 1), Person(4, 1), Person(1, 2), Person(3, 2)>>

====
